---- MODULE Spec2Model ----
(***************************************************************************)
(* State-machine model of the OTAUpdate extension                         *)
(* (src/lib/extension/otaUpdate.ts).  Every handler runs atomically up to *)
(* its next `await`; each suspended handler invocation is one entry of    *)
(* `tasks`.                                                                *)
(***************************************************************************)
EXTENDS Integers, Sequences, FiniteSets, Bags, TLC

VARIABLES
    started,      \* start() has run: handlers are registered
    settings,     \* settings.get(): advanced.legacy_api, ota.disable_automatic_update_check
    now,          \* Date.now() in milliseconds
    state,        \* this.state: device -> its `update` record (the ledger)
    inProgress,   \* this.inProgress
    lastChecked,  \* this.lastChecked (Never when the key is absent)
    tasks,        \* the bag of suspended handler invocations
    checkTime,    \* history: time of the last automatic attempt / successful explicit check
    last,         \* history: the input handled by the last step
    out           \* history: what the last step sent out

vars == <<started, settings, now, state, inProgress, lastChecked, tasks, checkTime, last, out>>

-----------------------------------------------------------------------------
(* Bounds of the model *)

MaxTicks == 2             \* clock steps of one minute
update_check_interval == 1  \* settings.get().ota.update_check_interval, in minutes

(* Program constants *)

MsPerMinute == 1000 * 60
Absent == -1              \* an optional numeric field that is not set
Never == -1               \* lastChecked has no own property for the device
Null == 0                 \* a version that is null / unknown
NO_IMAGE_AVAILABLE == 152 \* 0x98

-----------------------------------------------------------------------------
(* The device directory *)

OtaDevices == {"a1"}          \* definition with an ota capability
PlainDevices == {"b1"}        \* definition without ota
UndefinedDevices == {"c1"}    \* no definition at all
Devices == OtaDevices \cup PlainDevices \cup UndefinedDevices
IDs == Devices \cup {"x9"}    \* "x9" resolves to no device

HasDefinition(d) == d \in OtaDevices \cup PlainDevices
HasOta(d) == d \in OtaDevices
ResolveEntity(id) == IF id \in Devices THEN <<id>> ELSE <<>>

-----------------------------------------------------------------------------
(* The ledger *)

UpdateStates == {"idle", "available", "updating"}

Rec(st, iv, lv, p, r) ==
    [state |-> st, installed_version |-> iv, latest_version |-> lv,
     progress |-> p, remaining |-> r]

\* records the state store may hold when the process starts
PersistedRecords ==
    { Rec("idle", 5, 5, Absent, Absent),
      Rec("available", 5, 7, Absent, Absent),
      Rec("idle", 5, 5, 50, 61),
      Rec("updating", 5, 7, 50, 61),
      Rec("updating", Null, Null, 0, Absent) }

-----------------------------------------------------------------------------
(* Pure helpers *)

\* Math.round of a number of seconds given in tenths of a second
MathRound(tenths) == (tenths + 5) \div 10

\* a provider result or a plain state name, as getEntityPublishPayload takes it
Str(s) == [str |-> s]
IsString(x) == "str" \in DOMAIN x
Result(avail, cur, ota) ==
    [available |-> avail, currentFileVersion |-> cur, otaFileVersion |-> ota]

\* what isUpdateAvailable may resolve to
AvailableResults == { Result(FALSE, 5, 5), Result(TRUE, 5, 7) }
\* what updateToLatest may resolve to
FileVersions == {7}
\* the (progress, remaining) pairs the provider may report; remaining in tenths
\* of a second, Absent for null
ProgressArgs == { <<0, Absent>>, <<50, 605>> }

\* removeProgressAndRemainingFromState that deletes nothing
removeNothingFromState(st, device) == st

removeProgressAndRemainingFromState(st, device) ==
    [st EXCEPT ![device].progress = Absent, ![device].remaining = Absent]

\* getEntityPublishPayload taking the versions from the record even when it is
\* given a provider result
getEntityPublishPayloadStale(st, device, s, progress, remaining) ==
    [ state |-> IF IsString(s) THEN s.str
                ELSE IF s.available THEN "available" ELSE "idle",
      installed_version |-> st[device].installed_version,
      latest_version |-> st[device].latest_version,
      progress |-> progress,
      remaining |-> IF remaining # Absent THEN MathRound(remaining) ELSE Absent,
      update_available |-> IF settings.legacy_api
                           THEN <<IF IsString(s) THEN s.str = "available" ELSE s.available>>
                           ELSE <<>> ]

getEntityPublishPayload(st, device, s, progress, remaining) ==
    LET deviceUpdateState == st[device] IN
    [ state |-> IF IsString(s) THEN s.str
                ELSE IF s.available THEN "available" ELSE "idle",
      installed_version |-> IF IsString(s) THEN deviceUpdateState.installed_version
                            ELSE s.currentFileVersion,
      latest_version |-> IF IsString(s) THEN deviceUpdateState.latest_version
                         ELSE s.otaFileVersion,
      progress |-> progress,
      remaining |-> IF remaining # Absent THEN MathRound(remaining) ELSE Absent,
      update_available |-> IF settings.legacy_api
                           THEN <<IF IsString(s) THEN s.str = "available" ELSE s.available>>
                           ELSE <<>> ]

\* the state store merges the published `update` object into the device's record
publishEntityState(st, device, payload) ==
    [st EXCEPT ![device] =
        [ state |-> payload.state,
          installed_version |-> payload.installed_version,
          latest_version |-> payload.latest_version,
          progress |-> IF payload.progress # Absent THEN payload.progress ELSE @.progress,
          remaining |-> IF payload.remaining # Absent THEN payload.remaining ELSE @.remaining ]]

-----------------------------------------------------------------------------
(* What a step sends out *)

NoOut == [published |-> <<>>, response |-> <<>>, log |-> <<>>, error |-> "",
          nack |-> <<>>, events |-> <<>>, calls |-> <<>>]

Published(device, payload) == <<[dev |-> device, payload |-> payload]>>
Log(status) == IF settings.legacy_api THEN <<status>> ELSE <<>>
Call(fn, device) == <<[fn |-> fn, dev |-> device]>>
\* endpoint.commandResponse('genOta', 'queryNextImageResponse', {status: 0x98}, ...)
Nack(device) == <<[dev |-> device, status |-> NO_IMAGE_AVAILABLE]>>

Input(op, id, arg) == [op |-> op, id |-> id, arg |-> arg]

\* an update that tells nobody of the new firmware
emitNothing(device) == <<>>

\* this.eventBus.emitReconfigure({device})
emitReconfigure(device) == <<"reconfigure">>
\* this.eventBus.emitDevicesChanged()
emitDevicesChanged(device) == <<"devicesChanged">>

-----------------------------------------------------------------------------
(* Suspended handler invocations *)

\* `pre` and `preChecked` are history: the ledger record and the last-checked
\* time when an explicit request was accepted (kept for the versions alone when
\* the request is an update)
Versions(rec) == <<rec.installed_version, rec.latest_version>>

Task(kind, device, topic, pc) ==
    [kind |-> kind, dev |-> device, topic |-> topic, pc |-> pc,
     pre |-> IF kind = "check" THEN <<state[device]>> ELSE <<Versions(state[device])>>,
     preChecked |-> IF kind = "check" THEN lastChecked[device] ELSE Never]

Suspended == BagToSet(tasks)
Add(t) == tasks (+) SetToBag({t})
Remove(t) == tasks (-) SetToBag({t})

\* the number of provider calls (availability query or update routine) in
\* flight for a device
ProviderCalls(device) ==
    LET calls == { t \in Suspended : t.dev = device /\ t.pc \in {"query", "update"} }
    IN BagCardinality([t \in calls |-> tasks[t]])

-----------------------------------------------------------------------------
(* Construction and start() *)

Init ==
    /\ started = FALSE
    /\ settings \in [legacy_api : BOOLEAN, disable_automatic_update_check : BOOLEAN]
    /\ now = 0
    /\ state \in [Devices -> PersistedRecords]
    /\ \A d \in PlainDevices : state[d] = Rec("updating", 5, 7, 50, 61)
    /\ \A d \in UndefinedDevices : state[d] = Rec("idle", 5, 5, Absent, Absent)
    /\ inProgress = {}
    /\ lastChecked = [d \in Devices |-> Never]
    /\ tasks = EmptyBag
    /\ checkTime = [d \in Devices |-> Never]
    /\ last = Input("new", "", <<>>)
    /\ out = NoOut

\* the loop body of start() without the reset of `updating`
RecoverProgressOnly(st, device) == removeProgressAndRemainingFromState(st, device)

\* the loop body of start(), for one device
Recover(st, device) ==
    LET s1 == removeProgressAndRemainingFromState(st, device) IN
    IF s1[device].state = "updating"
    THEN [s1 EXCEPT ![device].state = "available"]
    ELSE s1

RECURSIVE RecoverAll(_, _)
RecoverAll(st, devs) ==
    IF devs = {} THEN st
    ELSE LET d == CHOOSE x \in devs : TRUE
         IN RecoverAll(Recover(st, d), devs \ {d})

Start ==
    /\ ~started
    /\ started' = TRUE
    /\ state' = RecoverAll(state, Devices)
    /\ last' = Input("start", "", <<>>)
    /\ out' = NoOut
    /\ UNCHANGED <<settings, now, inProgress, lastChecked, tasks, checkTime>>

\* time passes
Tick ==
    /\ started
    /\ now < MaxTicks * MsPerMinute
    /\ now' = now + MsPerMinute
    /\ last' = Input("tick", "", <<>>)
    /\ out' = NoOut
    /\ UNCHANGED <<started, settings, state, inProgress, lastChecked, tasks, checkTime>>

-----------------------------------------------------------------------------
(* onZigbeeEvent: a device message arrives *)

MessageTypes == {"commandQueryNextImageRequest", "attributeReport"}

\* the interval left in minutes
updateCheckIntervalInMinutes == update_check_interval

updateCheckInterval == update_check_interval * 1000 * 60

\* CheckDue with a check as soon as the interval has passed
CheckDueAtInterval(device) ==
    IF lastChecked[device] # Never
    THEN (now - lastChecked[device]) >= updateCheckInterval
    ELSE TRUE

\* the rate limit of the automatic check (`check`)
CheckDue(device) ==
    IF lastChecked[device] # Never
    THEN (now - lastChecked[device]) > updateCheckInterval
    ELSE TRUE

\* the handler returns at once
ZigbeeIgnored(type, device) ==
    \/ type # "commandQueryNextImageRequest"
    \/ ~HasDefinition(device)
    \/ device \in inProgress

\* ZigbeeQueries without the test of the OTA capability
ZigbeeQueriesAnyDevice(device) ==
    ~settings.disable_automatic_update_check /\ CheckDue(device)

\* the handler queries the provider
ZigbeeQueries(device) ==
    HasOta(device) /\ ~settings.disable_automatic_update_check /\ CheckDue(device)

\* the handler returns from inside the rate limit, before the response
ZigbeeSkips(device) ==
    HasOta(device) /\ ~settings.disable_automatic_update_check /\ ~CheckDue(device)

onZigbeeEvent(type, device) ==
    /\ started
    /\ last' = Input("signal", device, <<type>>)
    /\ IF ZigbeeIgnored(type, device) \/ ZigbeeSkips(device)
       THEN /\ out' = NoOut
            /\ UNCHANGED <<lastChecked, tasks, checkTime>>
       ELSE IF ZigbeeQueries(device)
       THEN /\ lastChecked' = [lastChecked EXCEPT ![device] = now]
            /\ checkTime' = [checkTime EXCEPT ![device] = now]
            /\ tasks' = Add(Task("auto", device, <<>>, "query"))
            /\ out' = [NoOut EXCEPT !.calls = Call("isUpdateAvailable", device)]
       ELSE /\ out' = [NoOut EXCEPT !.nack = Nack(device)]
            /\ UNCHANGED <<lastChecked, tasks, checkTime>>
    /\ UNCHANGED <<started, settings, now, state, inProgress>>

\* isUpdateAvailable resolves (ok) or rejects in the automatic check
AutoCheckDone(t, ok, result) ==
    /\ t \in Suspended
    /\ t.kind = "auto" /\ t.pc = "query"
    /\ LET device == t.dev
           availableResult == IF ok THEN <<result>> ELSE <<>>
           s == IF ok THEN result ELSE Str("idle")
           payload == getEntityPublishPayload(state, device, s, Absent, Absent)
       IN /\ state' = publishEntityState(state, device, payload)
          /\ out' = [NoOut EXCEPT
                       !.published = Published(device, payload),
                       !.log = IF ok /\ result.available THEN Log("available") ELSE <<>>,
                       !.nack = Nack(device)]
          /\ last' = Input(IF ok THEN "autoReturn" ELSE "autoThrow", device, <<>>)
    /\ tasks' = Remove(t)
    /\ UNCHANGED <<started, settings, now, inProgress, lastChecked, checkTime>>

-----------------------------------------------------------------------------
(* onMQTTMessage: topics *)

\* a topic is the sequence of its '/'-separated segments
base_topic == "zigbee2mqtt"
RequestPrefix == <<base_topic, "bridge", "request", "device", "ota_update">>
LegacyPrefix == <<base_topic, "bridge", "ota_update">>

Topics ==
    { RequestPrefix \o <<"check">>,
      RequestPrefix \o <<"update">>,
      RequestPrefix \o <<"CHECK">>,
      LegacyPrefix \o <<"check">>,
      LegacyPrefix \o <<"update">>,
      <<base_topic, "bridge", "request", "device", "remove">> }

\* the segments that begin with `update` or `check`, ignoring case
BeginsWithAction(segment) == segment \in {"check", "update", "CHECK"}

HasPrefix(topic, prefix) ==
    /\ Len(topic) >= Len(prefix)
    /\ SubSeq(topic, 1, Len(prefix)) = prefix

\* ^<base>/bridge/ota_update/.+$
MatchesLegacyTopicRegex(topic) ==
    HasPrefix(topic, LegacyPrefix) /\ Len(topic) > Len(LegacyPrefix)

\* ^<base>/bridge/request/device/ota_update/(update|check), flag i, no end anchor
MatchesTopicRegex(topic) ==
    /\ HasPrefix(topic, RequestPrefix)
    /\ Len(topic) > Len(RequestPrefix)
    /\ BeginsWithAction(topic[Len(RequestPrefix) + 1])

\* the guard of the first return of onMQTTMessage
TopicAccepted(topic) ==
    ~((~settings.legacy_api \/ ~MatchesLegacyTopicRegex(topic)) /\ ~MatchesTopicRegex(topic))

\* data.topic.substring(data.topic.lastIndexOf('/') + 1)
TypeOf(topic) == topic[Len(topic)]

\* utils.getResponse(message, responseData, error)
getResponse(type, id, error, data) ==
    [type |-> type, id |-> id, status |-> IF error = "" THEN "ok" ELSE "error",
     error |-> error, data |-> data]

\* Respond without the test of the legacy topic
RespondAlways(topic, id, error, data) ==
    <<getResponse(TypeOf(topic), id, error, data)>>

\* the tail of onMQTTMessage: the structured response, unless the legacy topic was used
Respond(topic, id, error, data) ==
    IF ~MatchesLegacyTopicRegex(topic)
    THEN <<getResponse(TypeOf(topic), id, error, data)>>
    ELSE <<>>

\* RequestError without the test of the In-Progress Set
\* RequestError without the test of the definition's OTA support
RequestErrorSupportsAll(id) ==
    LET device == ResolveEntity(id) IN
    IF device = <<>> THEN "does not exist"
    ELSE IF device[1] \in inProgress THEN "already in progress"
    ELSE ""

RequestErrorNoLock(id) ==
    LET device == ResolveEntity(id) IN
    IF device = <<>> THEN "does not exist"
    ELSE IF ~HasDefinition(device[1]) \/ ~HasOta(device[1]) THEN "does not support OTA updates"
    ELSE ""

\* the error of a request that starts no operation, "" when it is accepted
RequestError(id) ==
    LET device == ResolveEntity(id) IN
    IF device = <<>> THEN "does not exist"
    ELSE IF ~HasDefinition(device[1]) \/ ~HasOta(device[1]) THEN "does not support OTA updates"
    ELSE IF device[1] \in inProgress THEN "already in progress"
    ELSE ""

onMQTTMessage(topic, id) ==
    /\ started
    /\ last' = Input("mqtt", id, topic)
    /\ IF ~TopicAccepted(topic)
       THEN /\ out' = NoOut
            /\ UNCHANGED <<inProgress, tasks>>
       ELSE IF RequestError(id) # ""
       THEN /\ out' = [NoOut EXCEPT
                         !.log = IF RequestError(id) = "does not support OTA updates"
                                 THEN Log("not_supported") ELSE <<>>,
                         !.error = RequestError(id),
                         !.response = Respond(topic, id, RequestError(id), <<>>)]
            /\ UNCHANGED <<inProgress, tasks>>
       ELSE /\ inProgress' = inProgress \cup {id}
            /\ IF TypeOf(topic) = "check"
               THEN /\ tasks' = Add(Task("check", id, topic, "query"))
                    /\ out' = [NoOut EXCEPT
                                 !.log = Log("checking_if_available"),
                                 !.calls = Call("isUpdateAvailable", id)]
               ELSE /\ tasks' = Add(Task("update", id, topic, "readFrom"))
                    /\ out' = [NoOut EXCEPT !.log = Log("update_in_progress")]
    /\ UNCHANGED <<started, settings, now, state, lastChecked, checkTime>>

-----------------------------------------------------------------------------
(* onMQTTMessage: the check and update operations after their awaits *)

\* responseData beyond the id
NoData == <<>>
CheckData(updateAvailable) == <<[updateAvailable |-> updateAvailable]>>
UpdateData(from, to) == <<[from |-> from, to |-> to]>>

\* what readSoftwareBuildIDAndDateCode may resolve to ("null" when the read fails)
BuildIDs == {"null", "build"}

\* an operation that ends without the delete
ReleaseNothing(device) == inProgress

\* this.inProgress.delete(device.ieeeAddr)
Release(device) == inProgress \ {device}

\* isUpdateAvailable resolves (ok) or rejects in an explicit check
CheckDone(t, ok, result) ==
    /\ t \in Suspended
    /\ t.kind = "check" /\ t.pc = "query"
    /\ LET device == t.dev
           payload == getEntityPublishPayload(state, device, result, Absent, Absent)
           error == IF ok THEN "" ELSE "Failed to check if update available"
       IN /\ IF ok
             THEN /\ state' = publishEntityState(state, device, payload)
                  /\ lastChecked' = [lastChecked EXCEPT ![device] = now]
                  /\ checkTime' = [checkTime EXCEPT ![device] = now]
             ELSE UNCHANGED <<state, lastChecked, checkTime>>
          /\ inProgress' = Release(device)
          /\ out' = [NoOut EXCEPT
                       !.log = IF ok
                               THEN Log(IF result.available THEN "available" ELSE "not_available")
                               ELSE Log("check_failed"),
                       !.error = error,
                       !.published = IF ok THEN Published(device, payload) ELSE <<>>,
                       !.response = Respond(t.topic, device, error,
                                            IF ok THEN CheckData(result.available) ELSE NoData)]
          /\ last' = Input(IF ok THEN "checkReturn" ELSE "checkThrow", device, t.topic)
    /\ tasks' = Remove(t)
    /\ UNCHANGED <<started, settings, now>>

\* the first readSoftwareBuildIDAndDateCode resolves; updateToLatest is called
ReadFromDone(t) ==
    /\ t \in Suspended
    /\ t.kind = "update" /\ t.pc = "readFrom"
    /\ tasks' = Add([t EXCEPT !.pc = "update"]) (-) SetToBag({t})
    /\ out' = [NoOut EXCEPT !.calls = Call("updateToLatest", t.dev)]
    /\ last' = Input("readFrom", t.dev, t.topic)
    /\ UNCHANGED <<started, settings, now, state, inProgress, lastChecked, checkTime>>

\* the provider calls onProgress(progress, remaining)
onProgress(t, progress, remaining) ==
    /\ t \in Suspended
    /\ t.kind = "update" /\ t.pc = "update"
    /\ LET device == t.dev
           payload == getEntityPublishPayload(state, device, Str("updating"), progress, remaining)
       IN /\ state' = publishEntityState(state, device, payload)
          /\ out' = [NoOut EXCEPT
                       !.published = Published(device, payload),
                       !.log = Log("update_progress")]
          /\ last' = Input("progress", device, t.topic)
    /\ UNCHANGED <<started, settings, now, inProgress, lastChecked, tasks, checkTime>>

\* updateToLatest resolves with the new file version
UpdateReturn(t, fileVersion) ==
    /\ t \in Suspended
    /\ t.kind = "update" /\ t.pc = "update"
    /\ LET device == t.dev
           cleared == removeProgressAndRemainingFromState(state, device)
           payload == getEntityPublishPayload(cleared, device,
                          Result(FALSE, fileVersion, fileVersion), Absent, Absent)
       IN /\ state' = publishEntityState(cleared, device, payload)
          /\ out' = [NoOut EXCEPT
                       !.events = emitReconfigure(device),
                       !.published = Published(device, payload)]
          /\ last' = Input("updateReturn", device, <<fileVersion>>)
    /\ tasks' = Add([t EXCEPT !.pc = "readTo"]) (-) SetToBag({t})
    /\ UNCHANGED <<started, settings, now, inProgress, lastChecked, checkTime>>

\* updateToLatest rejects
UpdateThrow(t) ==
    /\ t \in Suspended
    /\ t.kind = "update" /\ t.pc = "update"
    /\ LET device == t.dev
           cleared == removeProgressAndRemainingFromState(state, device)
           payload == getEntityPublishPayload(cleared, device, Str("available"), Absent, Absent)
       IN /\ state' = publishEntityState(cleared, device, payload)
          /\ inProgress' = Release(device)
          /\ out' = [NoOut EXCEPT
                       !.published = Published(device, payload),
                       !.log = Log("update_failed"),
                       !.error = "Update failed",
                       !.response = Respond(t.topic, device, "Update failed", NoData)]
          /\ last' = Input("updateThrow", device, t.topic)
    /\ tasks' = Remove(t)
    /\ UNCHANGED <<started, settings, now, lastChecked, checkTime>>

\* the second readSoftwareBuildIDAndDateCode resolves; the update is finished.
\* `from` is what the first read resolved to: nothing reads it before this step.
ReadToDone(t, from, to) ==
    /\ t \in Suspended
    /\ t.kind = "update" /\ t.pc = "readTo"
    /\ LET device == t.dev
       IN /\ inProgress' = Release(device)
          /\ out' = [NoOut EXCEPT
                       !.events = emitDevicesChanged(device),
                       !.log = Log("update_succeeded"),
                       !.response = Respond(t.topic, device, "",
                                            UpdateData(from, to))]
          /\ last' = Input("readTo", device, t.topic)
    /\ tasks' = Remove(t)
    /\ UNCHANGED <<started, settings, now, state, lastChecked, checkTime>>

-----------------------------------------------------------------------------
(* The specification *)

\* the device messages and bus messages that arrive
Signals ==
    ({"commandQueryNextImageRequest"} \X Devices) \cup ({"attributeReport"} \X OtaDevices)

Requests ==
    (Topics \X OtaDevices)
    \cup ({RequestPrefix \o <<"update">>, LegacyPrefix \o <<"update">>} \X PlainDevices)
    \cup ({RequestPrefix \o <<"check">>} \X (IDs \ (OtaDevices \cup PlainDevices)))

Next ==
    \/ Start
    \/ Tick
    \/ \E sig \in Signals : onZigbeeEvent(sig[1], sig[2])
    \/ \E t \in Suspended, ok \in BOOLEAN, result \in AvailableResults :
           AutoCheckDone(t, ok, result)
    \/ \E req \in Requests : onMQTTMessage(req[1], req[2])
    \/ \E t \in Suspended, ok \in BOOLEAN, result \in AvailableResults :
           CheckDone(t, ok, result)
    \/ \E t \in Suspended : ReadFromDone(t)
    \/ \E t \in Suspended, a \in ProgressArgs : onProgress(t, a[1], a[2])
    \/ \E t \in Suspended, fileVersion \in FileVersions : UpdateReturn(t, fileVersion)
    \/ \E t \in Suspended : UpdateThrow(t)
    \/ \E t \in Suspended, from \in BuildIDs, to \in BuildIDs : ReadToDone(t, from, to)

Spec == Init /\ [][Next]_vars

\* the awaited calls of an explicit check or update for a device come back:
\* the provider call returns or throws, the reads of the build id resolve
Completes(device) ==
    \E t \in Suspended :
        /\ t.dev = device
        /\ \/ \E ok \in BOOLEAN, result \in AvailableResults : CheckDone(t, ok, result)
           \/ ReadFromDone(t)
           \/ \E fileVersion \in FileVersions : UpdateReturn(t, fileVersion)
           \/ UpdateThrow(t)
           \/ \E from \in BuildIDs, to \in BuildIDs : ReadToDone(t, from, to)

\* The same handlers under weak fairness of the awaited calls, with the arrivals
\* narrowed to the supported devices and the clock left at rest.
LiveInit ==
    /\ Init
    /\ ~settings.disable_automatic_update_check

LiveRequests ==
    { RequestPrefix \o <<"check">>, RequestPrefix \o <<"update">>, LegacyPrefix \o <<"update">> }
        \X OtaDevices

LiveNext ==
    \/ Start
    \/ \E device \in OtaDevices : onZigbeeEvent("commandQueryNextImageRequest", device)
    \/ \E t \in Suspended, ok \in BOOLEAN, result \in AvailableResults :
           AutoCheckDone(t, ok, result)
    \/ \E req \in LiveRequests : onMQTTMessage(req[1], req[2])
    \/ \E t \in Suspended, ok \in BOOLEAN, result \in AvailableResults :
           CheckDone(t, ok, result)
    \/ \E t \in Suspended : ReadFromDone(t)
    \/ \E t \in Suspended, a \in ProgressArgs : onProgress(t, a[1], a[2])
    \/ \E t \in Suspended, fileVersion \in FileVersions : UpdateReturn(t, fileVersion)
    \/ \E t \in Suspended : UpdateThrow(t)
    \/ \E t \in Suspended, from \in BuildIDs, to \in BuildIDs : ReadToDone(t, from, to)

LiveSpec ==
    LiveInit /\ [][LiveNext]_vars /\ \A d \in Devices : WF_vars(Completes(d))

-----------------------------------------------------------------------------
(* Properties *)

QueryNextImage == <<"commandQueryNextImageRequest">>

\* the last step was onMQTTMessage for a topic the handler accepts
IsRequest(l) == l.op = "mqtt" /\ TopicAccepted(l.arg)

\* C1: for every device at most one provider call (availability query or
\* update routine) is in flight, automatic checks included.
C1_OneProviderCall == \A d \in Devices : ProviderCalls(d) <= 1

\* C2: a request for a supported device that is in the In-Progress Set is
\* answered with the "already in progress" error at once: it starts no
\* provider call, suspends nothing, and leaves the ledger, the Last-Checked
\* Map and the In-Progress Set as they were.
C2_RejectedInProgress ==
    [][ (IsRequest(last') /\ HasOta(last'.id) /\ last'.id \in inProgress)
        => /\ out'.error = "already in progress"
           /\ out'.calls = <<>>
           /\ \A r \in { out'.response[i] : i \in DOMAIN out'.response } :
                  r.status = "error" /\ r.error = "already in progress"
           /\ out'.response = <<>> <=> MatchesLegacyTopicRegex(last'.arg)
           /\ UNCHANGED <<state, lastChecked, inProgress, tasks>> ]_vars

C2_Witness ==
    /\ IsRequest(last) /\ HasOta(last.id) /\ last.id \in inProgress
    /\ out.error = "already in progress"
    /\ out.response # <<>>

\* C3: every accepted check or update eventually removes its device from the
\* In-Progress Set, whether the provider call succeeds or fails, and a request
\* for a supported device that is not in the set is accepted: it enters the
\* set and starts its operation without an error.
C3_LockReleased ==
    /\ \A d \in Devices : (d \in inProgress) ~> (d \notin inProgress)
    /\ [][ (IsRequest(last') /\ HasOta(last'.id) /\ last'.id \notin inProgress)
            => /\ last'.id \in inProgress'
               /\ out'.error = "" /\ out'.response = <<>>
               /\ \E t \in BagToSet(tasks') :
                      t.dev = last'.id /\ t.kind \in {"check", "update"} ]_vars

\* a request accepted after an update of the same device has come to its end
C3_Witness ==
    /\ IsRequest(last) /\ HasOta(last.id) /\ out.error = ""
    /\ last.id \in inProgress
    /\ state[last.id].installed_version \in FileVersions

\* C4: after start(), a ledger record carries `progress` exactly when its
\* state is `updating`, and carries neither `progress` nor `remaining` when
\* its state is `idle` or `available`.
C4_ProgressIffUpdating ==
    started =>
        \A d \in Devices :
            /\ state[d].progress # Absent <=> state[d].state = "updating"
            /\ state[d].state \in {"idle", "available"}
                   => state[d].progress = Absent /\ state[d].remaining = Absent

\* C5: when updateToLatest returns, the record of the device becomes `idle`
\* with installed_version and latest_version both the returned file version
\* and without progress and remaining.
C5_SuccessfulUpdate ==
    [][ last'.op = "updateReturn"
        => state'[last'.id] = Rec("idle", last'.arg[1], last'.arg[1], Absent, Absent) ]_vars

C5_Witness ==
    /\ last.op = "updateReturn"
    /\ last.arg[1] \in FileVersions
    /\ state[last.id] = Rec("idle", last.arg[1], last.arg[1], Absent, Absent)
    /\ last.id \in inProgress

\* C6: when updateToLatest fails, the record of the device becomes `available`
\* without progress and remaining, its versions are those it had when the
\* update request was accepted, and the failure is reported as an error.
C6_FailedUpdate ==
    [][ last'.op = "updateThrow"
        => \A t \in Suspended :
               (t.kind = "update" /\ t.dev = last'.id)
               => /\ state'[t.dev].state = "available"
                  /\ state'[t.dev].progress = Absent
                  /\ state'[t.dev].remaining = Absent
                  /\ Versions(state'[t.dev]) = t.pre[1]
                  /\ out'.error # "" ]_vars

\* C7: the automatic check issues an availability query for a device only
\* when no check time is recorded for it or more than the configured interval
\* has passed since the recorded check time (every automatic attempt, at the
\* moment it is issued, and every successful explicit check).
C7_RateLimit ==
    [][ (last'.op = "signal" /\ out'.calls # <<>>)
        => \/ checkTime[last'.id] = Never
           \/ now - checkTime[last'.id] > update_check_interval * MsPerMinute ]_vars

\* a second signal inside the interval, while the first query is in flight
C7_Witness ==
    /\ last.op = "signal" /\ last.arg = QueryNextImage
    /\ HasOta(last.id) /\ last.id \notin inProgress
    /\ ~settings.disable_automatic_update_check
    /\ now > checkTime[last.id] /\ checkTime[last.id] # Never
    /\ out.calls = <<>>
    /\ \E t \in Suspended : t.kind = "auto" /\ t.dev = last.id

\* C8: every check-requesting signal the trigger handles (capability profile,
\* not in the In-Progress Set) is answered with the stop-requesting
\* acknowledgment: by the handler itself, or by the completion of the query
\* it has issued.
C8_AlwaysNack ==
    [][ /\ (last'.op = "signal" /\ last'.arg = QueryNextImage
              /\ HasDefinition(last'.id) /\ last'.id \notin inProgress)
           => \/ out'.nack = Nack(last'.id)
              \/ out'.calls = Call("isUpdateAvailable", last'.id)
        /\ last'.op \in {"autoReturn", "autoThrow"} => out'.nack = Nack(last'.id) ]_vars

\* C9: a check-requesting signal from a device with a capability profile but
\* no OTA capability sends the stop-requesting acknowledgment and nothing
\* else, and changes no state.
C9_NoOtaSignal ==
    [][ (last'.op = "signal" /\ last'.arg = QueryNextImage
           /\ HasDefinition(last'.id) /\ ~HasOta(last'.id))
        => /\ out' = [NoOut EXCEPT !.nack = Nack(last'.id)]
           /\ UNCHANGED <<state, inProgress, lastChecked, tasks>> ]_vars

C9_Witness ==
    /\ last.op = "signal" /\ last.arg = QueryNextImage
    /\ last.id \in PlainDevices
    /\ out.nack = Nack(last.id)

\* C10: start() leaves no record `updating` and none with progress or
\* remaining: a record persisted as `updating` becomes `available`, the
\* others keep their state, and all keep their versions.
C10_StartupRecovery ==
    [][ last'.op = "start"
        => \A d \in Devices :
               /\ state'[d].state # "updating"
               /\ state'[d].progress = Absent /\ state'[d].remaining = Absent
               /\ state[d].state = "updating" => state'[d].state = "available"
               /\ state[d].state # "updating" => state'[d].state = state[d].state
               /\ Versions(state'[d]) = Versions(state[d]) ]_vars

\* after start(), a record that was persisted as `updating` with progress
C10_Witness ==
    /\ last.op = "start"
    /\ \E d \in OtaDevices : state[d] = Rec("available", Null, Null, Absent, Absent)
    /\ \E d \in OtaDevices \cup PlainDevices : state[d] = Rec("available", 5, 7, Absent, Absent)

\* the steps that end an explicit operation, and the failures among them
EndOps == {"checkReturn", "checkThrow", "updateThrow", "readTo"}
FailOps == {"checkThrow", "updateThrow"}

\* C11: a request on the current topic pattern gets exactly one structured
\* response, on bridge/response/device/ota_update/<action>: at once and with
\* an error when it is rejected, else by the step that ends its operation and
\* with an error exactly when the provider failed.  No other step publishes a
\* response, a request on the legacy topic gets none, and a legacy-topic
\* message is ignored entirely while legacy_api is off.
C11_OneResponse ==
    [][ /\ last'.op = "mqtt"
           => IF ~TopicAccepted(last'.arg)
              THEN /\ out' = NoOut
                   /\ UNCHANGED <<state, inProgress, lastChecked, tasks>>
              ELSE IF MatchesLegacyTopicRegex(last'.arg)
              THEN out'.response = <<>>
              ELSE IF tasks' = tasks
              THEN /\ Len(out'.response) = 1
                   /\ out'.response[1].type = TypeOf(last'.arg)
                   /\ out'.response[1].id = last'.id
                   /\ out'.response[1].status = "error"
                   /\ out'.response[1].error # ""
              ELSE out'.response = <<>>
        /\ last'.op \in EndOps
           => IF MatchesLegacyTopicRegex(last'.arg)
              THEN out'.response = <<>>
              ELSE /\ Len(out'.response) = 1
                   /\ out'.response[1].type = TypeOf(last'.arg)
                   /\ out'.response[1].id = last'.id
                   /\ out'.response[1].status = "error" <=> last'.op \in FailOps
                   /\ out'.response[1].error # "" <=> last'.op \in FailOps
                   /\ tasks' # tasks
        /\ last'.op \notin EndOps \cup {"mqtt"} => out'.response = <<>> ]_vars

\* the response of an update that has come to its end
C11_Witness ==
    /\ last.op = "readTo" /\ ~MatchesLegacyTopicRegex(last.arg)
    /\ Len(out.response) = 1
    /\ out.response[1].status = "ok" /\ out.response[1].type = "update"
    /\ last.id \notin inProgress

\* C12: when the availability query of an explicit check returns, the record's
\* state becomes `available` if the result says so and `idle` otherwise, its
\* installed_version and latest_version are the result's currentFileVersion
\* and otaFileVersion, and the response (if any) has status ok with
\* updateAvailable equal to the result's answer.
C12_SuccessfulCheck ==
    [][ last'.op = "checkReturn"
        => \A t \in Suspended : \A result \in AvailableResults :
          (t.kind = "check" /\ t.dev = last'.id /\ CheckDone(t, TRUE, result))
          => /\ state'[t.dev].state = (IF result.available THEN "available" ELSE "idle")
             /\ state'[t.dev].installed_version = result.currentFileVersion
             /\ state'[t.dev].latest_version = result.otaFileVersion
             /\ out'.error = ""
             /\ \A i \in 1..Len(out'.response) :
                  /\ out'.response[i].status = "ok"
                  /\ out'.response[i].data = CheckData(result.available)
             /\ ~MatchesLegacyTopicRegex(t.topic) => Len(out'.response) = 1 ]_vars

\* the scenario of the claim: available, 5 to 7
C12_Witness ==
    /\ last.op = "checkReturn" /\ last.id \in OtaDevices
    /\ state[last.id].state = "available"
    /\ state[last.id].installed_version = 5
    /\ state[last.id].latest_version = 7
    /\ Len(out.response) = 1
    /\ out.response[1].status = "ok"
    /\ out.response[1].data = CheckData(TRUE)

\* C13: a request whose id resolves to no device fails with 'does not exist';
\* a request for a device without a definition supporting OTA fails with
\* 'does not support OTA updates', with a bridge/log message `not_supported`
\* exactly when legacy_api is on.  Either way no provider call is started,
\* nothing is suspended or published, and inProgress, the ledger and
\* lastChecked are unchanged.
C13_UnknownOrUnsupported ==
    [][ (IsRequest(last') /\ (ResolveEntity(last'.id) = <<>> \/ ~HasOta(last'.id)))
        => /\ out'.error = (IF ResolveEntity(last'.id) = <<>>
                            THEN "does not exist"
                            ELSE "does not support OTA updates")
           /\ out'.log = (IF ResolveEntity(last'.id) # <<>> /\ settings.legacy_api
                          THEN <<"not_supported">> ELSE <<>>)
           /\ out'.calls = <<>> /\ out'.published = <<>> /\ out'.events = <<>>
           /\ \A i \in 1..Len(out'.response) :
                /\ out'.response[i].status = "error"
                /\ out'.response[i].error = out'.error
           /\ UNCHANGED <<state, inProgress, lastChecked, tasks>> ]_vars

\* the scenario of the claim: legacy mode, unsupported device, legacy topic
C13_Witness ==
    /\ IsRequest(last) /\ last.id \in PlainDevices
    /\ MatchesLegacyTopicRegex(last.arg)
    /\ out.error = "does not support OTA updates"
    /\ out.log = <<"not_supported">>
    /\ out.response = <<>>

\* C14: when updateToLatest is invoked the record has been set to `updating`
\* with progress 0, before any progress callback.
C14_UpdatingBeforeCall ==
    [][ last'.op = "readFrom"
        => /\ state'[last'.id].state = "updating"
           /\ state'[last'.id].progress = 0 ]_vars

\* the steps of a check that publish a state
CheckOps == {"checkReturn", "autoReturn", "autoThrow"}

\* C15: every change of a record's state follows the state machine: a check
\* outcome gives `idle` or `available`; `updating` is entered from
\* `available` only; the end of an update, and start(), leave `updating` only.
C15_StateMachine ==
    [][ \A d \in Devices :
          state'[d].state # state[d].state
          => \/ last'.op \in CheckOps /\ state'[d].state \in {"idle", "available"}
             \/ state[d].state = "available" /\ state'[d].state = "updating"
             \/ /\ state[d].state = "updating"
                /\ \/ last'.op = "updateReturn" /\ state'[d].state = "idle"
                   \/ last'.op \in {"updateThrow", "start"}
                      /\ state'[d].state = "available" ]_vars

\* C16: `reconfigure` is emitted by the step in which updateToLatest returns,
\* `devicesChanged` by the step that ends the successful update, once each;
\* no other step (failed update, check, rejected request, signal) emits an
\* event.
C16_LifecycleEvents ==
    [][ /\ last'.op = "updateReturn" => out'.events = <<"reconfigure">>
        /\ last'.op = "readTo" => out'.events = <<"devicesChanged">>
        /\ last'.op \notin {"updateReturn", "readTo"} => out'.events = <<>>
        /\ last'.op = "updateReturn"
           => \E t \in Suspended :
                /\ t.kind = "update" /\ t.dev = last'.id /\ t.pc = "update"
                /\ tasks' = Remove(t) (+) SetToBag({[t EXCEPT !.pc = "readTo"]})
        /\ last'.op = "readTo"
           => \E t \in Suspended :
                /\ t.kind = "update" /\ t.dev = last'.id /\ t.pc = "readTo"
                /\ tasks' = Remove(t) ]_vars

\* a successful update has come to its end and told of the changed devices
C16_Witness ==
    /\ last.op = "readTo"
    /\ out.events = <<"devicesChanged">>
    /\ out.error = ""
    /\ state[last.id].state = "idle"

\* C17: when the availability query of an explicit check fails, an error is
\* reported, no state is published, and the record and the last-checked
\* time are what they were when the request arrived.
C17_FailedCheck ==
    [][ last'.op = "checkThrow"
        => \A t \in Suspended : \A result \in AvailableResults :
          (t.kind = "check" /\ t.dev = last'.id /\ CheckDone(t, FALSE, result))
          => /\ out'.error # ""
             /\ out'.published = <<>>
             /\ state'[t.dev] = t.pre[1]
             /\ lastChecked'[t.dev] = t.preChecked ]_vars

\* C18: when the availability query of an automatic check fails, no error is
\* reported and the record's state and versions are left as they were; a
\* device recorded as `available` is still `available`.
C18_FailedAutoCheck ==
    [][ last'.op = "autoThrow"
        => /\ out'.error = "" /\ out'.response = <<>>
           /\ state'[last'.id].state = state[last'.id].state
           /\ Versions(state'[last'.id]) = Versions(state[last'.id]) ]_vars

\* a check-requesting signal the rate limit decides on
EligibleSignal(l) ==
    /\ l.op = "signal" /\ l.arg = QueryNextImage
    /\ HasOta(l.id) /\ l.id \notin inProgress
    /\ ~settings.disable_automatic_update_check

\* C19 as stated: for an eligible signal the check is skipped exactly when a
\* check time is recorded and less than the interval has passed since; else
\* (the interval having passed exactly included) the time is recorded and the
\* query issued.
C19_SkipsBelowInterval ==
    [][ EligibleSignal(last')
        => IF /\ lastChecked[last'.id] # Never
              /\ now - lastChecked[last'.id] < update_check_interval * MsPerMinute
           THEN out'.calls = <<>> /\ UNCHANGED lastChecked
           ELSE /\ out'.calls = Call("isUpdateAvailable", last'.id)
                /\ lastChecked'[last'.id] = now ]_vars

\* C19, amended: for an eligible signal the check is skipped exactly when a
\* check time is recorded and no more than the interval has passed since
\* (the interval having passed exactly included); with no check time, or
\* with more than the interval passed, the time is recorded and the query
\* issued.
C19_SkipsUpToInterval ==
    [][ EligibleSignal(last')
        => IF /\ lastChecked[last'.id] # Never
              /\ now - lastChecked[last'.id] <= update_check_interval * MsPerMinute
           THEN /\ out'.calls = <<>> /\ UNCHANGED <<lastChecked, tasks, state>>
           ELSE /\ out'.calls = Call("isUpdateAvailable", last'.id)
                /\ lastChecked'[last'.id] = now
                /\ \E t \in BagToSet(tasks') :
                     /\ t.kind = "auto" /\ t.dev = last'.id
                     /\ tasks'[t] > (IF t \in Suspended THEN tasks[t] ELSE 0) ]_vars

\* a signal skipped when exactly the interval has passed
C19_Witness ==
    /\ EligibleSignal(last)
    /\ lastChecked[last.id] # Never
    /\ now - lastChecked[last.id] = update_check_interval * MsPerMinute
    /\ out.calls = <<>>

\* C20: the update branch is entered only by a request whose action segment
\* is `update`, and the check branch only by one whose segment is `check`.
C20_DispatchByAction ==
    [][ IsRequest(last')
        => \A t \in BagToSet(tasks') :
             tasks'[t] > (IF t \in Suspended THEN tasks[t] ELSE 0)
             => /\ t.kind = "update" => TypeOf(last'.arg) = "update"
                /\ t.kind = "check" => TypeOf(last'.arg) = "check" ]_vars

====
